---- MODULE Spec2Model ----
(***************************************************************************)
(* A model of sc_servo.py: the ScsMessage frame codec and the              *)
(* SerialControlledServo bus driver (register transactions over a UART,   *)
(* servo/motor mode cache).                                                *)
(***************************************************************************)
EXTENDS Integers, Sequences, FiniteSets, TLC

VARIABLES
    msg,        \* codec: the ScsMessage under study
    data,       \* codec: the bytearray handed to from_bytes
    parsed,     \* codec: what from_bytes(data) gave
    cstage,     \* codec: "off" | "msg" | "frame" | "raw" | "parsed"
    flip,       \* codec: the edit applied to the serialized frame
    servo_modes,\* SerialControlledServo._servo_modes: dict servo id -> mode
    uart_in,    \* the UART's input buffer (uart.in_waiting is its length)
    wire,       \* bytes a device has begun to transmit and that have not arrived
    unanswered, \* request frames on the bus that no device has answered yet
    env,        \* what is at the other end: "bus" (any device) | "mock"
    mock_addrs, \* the register addresses whose WRITE frames the mock acknowledges
    call,       \* per caller: the public operation in progress and its locals
    prev,       \* the call that completed last
    callers,    \* the callers that use the controller
    device,     \* the servo on the bus: its registers and the request it holds
    stale       \* bytes of the input stream older than the transaction in progress

codec_vars == <<msg, data, parsed, cstage, flip>>
bus_vars == <<servo_modes, uart_in, wire, unanswered, env, mock_addrs, call, prev, callers,
              device, stale>>
vars == <<msg, data, parsed, cstage, flip,
          servo_modes, uart_in, wire, unanswered, env, mock_addrs, call, prev,
          callers, device, stale>>

(***************************************************************************)
(* Program constants (sc_servo.py lines 37-87).                            *)
(***************************************************************************)
SCSCL_MODE_NONE == 0
SCSCL_MODE_SERVO == 1
SCSCL_MODE_MOTOR == 2
SCSCL_READ_DATA == 2
SCSCL_WRITE_DATA == 3
SCSCL_BROADCAST_ID == 254
SCSCL_MAX_POS == 1023
SCSCL_MAX_POS_SPEED == 1500
SCSCL_MIN_MOTOR_SPEED == -1023
SCSCL_MAX_MOTOR_SPEED == 1023
SCSCL_MIN_PACKET_LENGTH == 6
SCSCL_ID == 5
SCSCL_MIN_ANGLE_LIMIT == 9
SCSCL_TORQUE_ENABLE == 40
SCSCL_GOAL_POSITION == 42
SCSCL_GOAL_TIME == 44
SCSCL_LOCK == 48
SCSCL_PRESENT_POSITION == 56
SCSCL_PRESENT_SPEED == 58
SCSCL_PRESENT_LOAD == 60
SCSCL_MOVING == 66
\* the largest parameter count _read_message accepts (line 168)
MAX_PARAM_LENGTH == 252

(***************************************************************************)
(* Bounds of the model.                                                    *)
(***************************************************************************)
\* longest parameter list of the enumerated messages
MaxParams == 2

(***************************************************************************)
(* Python helpers: 0-based indexing, slices, integer bit operations.       *)
(***************************************************************************)
Min(a, b) == IF a < b THEN a ELSE b

\* data[i] for 0 <= i < len(data)
At(s, i) == s[i + 1]

\* data[a:b] for 0 <= a: the stop is clipped to len(data), a >= b gives b""
Slice(s, a, b) ==
    LET stop == Min(b, Len(s))
    IN  IF a >= stop THEN <<>> ELSE SubSeq(s, a + 1, stop)

Bit(x, k) == (x \div (2 ^ k)) % 2

\* ~s & 0xFF for s >= 0: the low eight bits, each inverted
RECURSIVE InvertLow(_, _)
InvertLow(s, k) ==
    IF k = 8 THEN 0 ELSE (1 - Bit(s, k)) * (2 ^ k) + InvertLow(s, k + 1)

\* b ^ (1 << k) on one byte
FlipBit(b, k) == IF Bit(b, k) = 1 THEN b - 2 ^ k ELSE b + 2 ^ k

\* sum(list): the elements s[lo..hi] added up, by halves
RECURSIVE SumRange(_, _, _)
SumRange(s, lo, hi) ==
    IF lo > hi THEN 0
    ELSE IF lo = hi THEN s[lo]
    ELSE LET mid == (lo + hi) \div 2
         IN  SumRange(s, lo, mid) + SumRange(s, mid + 1, hi)

sum(s) == SumRange(s, 1, Len(s))

(***************************************************************************)
(* class ScsMessage                                                        *)
(***************************************************************************)
\* ScsMessage.__init__, lines 97-100
ScsMessage(servo_id, instruction, parameters) ==
    [id |-> servo_id, instruction |-> instruction, parameters |-> parameters]

\* checksum, were the length field left out of the sum
checksum_dropping_length(m) ==
    InvertLow(sum(<<m.id, m.instruction>> \o m.parameters), 0)

\* ScsMessage.checksum, lines 102-108
checksum(m) ==
    InvertLow(sum(<<m.id, Len(m.parameters) + 2, m.instruction>> \o m.parameters), 0)

\* to_bytes, were the length byte the bare parameter count
to_bytes_length_is_count(m) ==
    <<255, 255, m.id, Len(m.parameters), m.instruction>>
        \o m.parameters \o <<checksum(m)>>

\* ScsMessage.to_bytes, lines 110-119 (data_len fits a byte up to 253 parameters)
to_bytes(m) ==
    LET data_len == Len(m.parameters) + 2
    IN  <<255, 255, m.id, data_len, m.instruction>>
            \o m.parameters \o <<checksum(m)>>

\* what from_bytes gives: the message, or the exception it raised
Parsed(m) == [exc |-> "none", m |-> m]
Raised(e) == [exc |-> e, m |-> ScsMessage(0, 0, <<>>)]

\* from_bytes, were the checksum never compared
from_bytes_unchecked(d) ==
    IF Len(d) < 6 THEN Raised("FrameTooShort")
    ELSE IF At(d, 0) # 255 \/ At(d, 1) # 255 THEN Raised("InvalidSync")
    ELSE LET length == At(d, 3)
             m == ScsMessage(At(d, 2), At(d, 4), Slice(d, 5, length + 3))
         IN  IF length + 3 >= Len(d) THEN Raised("IndexError") ELSE Parsed(m)

\* ScsMessage.from_bytes, lines 121-140
from_bytes(d) ==
    IF Len(d) < 6 THEN Raised("FrameTooShort")
    ELSE IF At(d, 0) # 255 \/ At(d, 1) # 255 THEN Raised("InvalidSync")
    ELSE LET msg_id == At(d, 2)
             length == At(d, 3)
             instruction == At(d, 4)
             parameters == Slice(d, 5, length + 3)
             m == ScsMessage(msg_id, instruction, parameters)
             cs == checksum(m)
         IN  \* data[length + 3] past the end: bytearray indexing raises
             IF length + 3 >= Len(d) THEN Raised("IndexError")
             ELSE IF cs # At(d, length + 3) THEN Raised("ChecksumMismatch")
             ELSE Parsed(m)

(***************************************************************************)
(* class SerialControlledServo                                             *)
(***************************************************************************)
\* the name `id` in set_position and set_motor_speed is Python's built-in
\* function: it equals no int and is the key of no entry of _servo_modes
builtin_id == -1

\* DictSet, were the entry stored under `id` as the lookup of line 211 has it
DictSet_builtin_key(d, key, value) ==
    [k \in (DOMAIN d) \cup {builtin_id} |-> IF k = builtin_id THEN value ELSE d[k]]

\* dict.get(key, default) and dict[key] = value
DictGet(d, key, default) == IF key \in DOMAIN d THEN d[key] ELSE default
DictSet(d, key, value) ==
    [k \in (DOMAIN d) \cup {key} |-> IF k = key THEN value ELSE d[k]]

\* int.to_bytes(2, "big") for 0 <= v < 65536
to_bytes_2_big(v) == <<v \div 256, v % 256>>
NoMessage == ScsMessage(0, 0, <<>>)

\* a caller with no operation in progress
IdleCall ==
    [pc |-> "idle", op |-> "none", servo_id |-> 0, pos |-> 0, speed |-> 0,
     new_id |-> 0, mode |-> SCSCL_MODE_NONE, stage |-> "none", kind |-> "none",
     m |-> NoMessage, payload |-> <<>>, param_length |-> 0, reply |-> NoMessage,
     written |-> <<>>, cleared |-> 0, result |-> "none", value |-> <<>>,
     modes0 |-> <<>>, device0 |-> [id |-> 0, lock |-> 0], discarded |-> 0,
     replies |-> 0]

\* a public operation is entered: its arguments, and the cache and the
\* servo's registers as they are then
Enter(op, servo_id, pos, speed, new_id) ==
    [IdleCall EXCEPT !.op = op, !.servo_id = servo_id, !.pos = pos,
                     !.speed = speed, !.new_id = new_id, !.modes0 = servo_modes,
                     !.device0 = [id |-> device.id, lock |-> device.lock]]

Max(a, b) == IF a > b THEN a ELSE b

\* stale.buffered: how many leading bytes of the input buffer were in it when
\* the transaction in progress started; stale.old: how many leading bytes of
\* the input stream (the buffer, then the wire) a servo had transmitted by then
NoStale == [buffered |-> 0, old |-> 0]

\* a transaction starts when the call's pc becomes "reset"
StaleWhen(r, buf, w) ==
    IF r.pc = "reset"
    THEN [buffered |-> Len(buf), old |-> Len(buf) + Len(w)]
    ELSE stale

\* n bytes are taken from the head of the input buffer
StaleAfterRead(n) ==
    [buffered |-> Max(stale.buffered - n, 0), old |-> Max(stale.old - n, 0)]

\* the operation returns (result "ok") or raises (result names the error)
Finish(r, result, value) ==
    [r EXCEPT !.pc = "done", !.result = result, !.value = value]

\* begin_write_memory, were the input buffer not cleared before the write
begin_write_memory_skipping_reset(r, stage, servo_id, addr, values) ==
    [r EXCEPT !.pc = "write", !.stage = stage, !.kind = "write",
              !.m = ScsMessage(servo_id, SCSCL_WRITE_DATA, <<addr>> \o values)]

\* _write_memory, lines 180-181: the WRITE message is built
begin_write_memory(r, stage, servo_id, addr, values) ==
    [r EXCEPT !.pc = "reset", !.stage = stage, !.kind = "write",
              !.m = ScsMessage(servo_id, SCSCL_WRITE_DATA, <<addr>> \o values)]

\* position_goal, were the goal-time register addressed instead
position_goal_wrong_register(r) ==
    begin_write_memory(r, "goal", r.servo_id, SCSCL_GOAL_TIME,
        to_bytes_2_big(r.pos) \o <<0, 0>> \o to_bytes_2_big(r.speed))

\* set_position, lines 219-225: the 6-byte write to the goal-position block
position_goal(r) ==
    begin_write_memory(r, "goal", r.servo_id, SCSCL_GOAL_POSITION,
        to_bytes_2_big(r.pos) \o <<0, 0>> \o to_bytes_2_big(r.speed))

\* position_in_range, were the upper limit of pos exclusive
position_in_range_exclusive(pos, speed) ==
    /\ 0 <= pos /\ pos < SCSCL_MAX_POS
    /\ 0 <= speed /\ speed <= SCSCL_MAX_POS_SPEED

\* set_position, lines 207-210
position_in_range(pos, speed) ==
    /\ 0 <= pos /\ pos <= SCSCL_MAX_POS
    /\ 0 <= speed /\ speed <= SCSCL_MAX_POS_SPEED

\* set_position, lines 211-212: whether the angle limits are written first
position_needs_limits(modes, servo_id) ==
    LET mode == DictGet(modes, builtin_id, SCSCL_MODE_NONE)
    IN  builtin_id = SCSCL_BROADCAST_ID \/ mode # SCSCL_MODE_SERVO

\* set_position, up to its first transaction
set_position(c, servo_id, pos, speed) ==
    /\ c \in callers
    /\ call[c].pc = "idle"
    /\ LET r == Enter("set_position", servo_id, pos, speed, 0)
       IN  call' = [call EXCEPT ![c] =
              IF ~position_in_range(pos, speed)
              THEN Finish(r, "OutOfRange", <<>>)
              ELSE IF position_needs_limits(servo_modes, servo_id)
              THEN begin_write_memory(
                       [r EXCEPT !.mode = DictGet(servo_modes, builtin_id, SCSCL_MODE_NONE)],
                       "limit", servo_id, SCSCL_MIN_ANGLE_LIMIT, <<0, 1, 3, 255>>)
              ELSE position_goal(
                       [r EXCEPT !.mode = DictGet(servo_modes, builtin_id, SCSCL_MODE_NONE)])]
    /\ stale' = StaleWhen(call'[c], uart_in, wire)
    /\ UNCHANGED <<servo_modes, uart_in, wire, unanswered, env, mock_addrs, prev, callers, device>>
    /\ UNCHANGED codec_vars

set_all_positions(c, pos, speed) == set_position(c, SCSCL_BROADCAST_ID, pos, speed)

\* motor_speed_value, were the offset SCSCL_MAX_MOTOR_SPEED itself
motor_speed_value_offset_1023(speed) ==
    IF speed < 0 THEN -speed ELSE speed + SCSCL_MAX_MOTOR_SPEED

\* set_motor_speed, lines 260-263: the signed speed as the register value
motor_speed_value(speed) ==
    IF speed < 0 THEN -speed ELSE speed + (SCSCL_MAX_MOTOR_SPEED + 1)

\* set_motor_speed, lines 264-269: the 2-byte write to the goal-time register
motor_goal(r) ==
    begin_write_memory(r, "goal", r.servo_id, SCSCL_GOAL_TIME,
        to_bytes_2_big(motor_speed_value(r.speed)))

\* set_motor_speed, line 248
motor_in_range(speed) ==
    SCSCL_MIN_MOTOR_SPEED <= speed /\ speed <= SCSCL_MAX_MOTOR_SPEED

\* motor_needs_limits, were the cache looked up under `id` as in set_position
motor_needs_limits_builtin_key(modes, servo_id) ==
    LET mode == DictGet(modes, builtin_id, SCSCL_MODE_NONE)
    IN  builtin_id = SCSCL_BROADCAST_ID \/ mode # SCSCL_MODE_MOTOR

\* set_motor_speed, lines 252-253: whether the angle limits are written first
motor_needs_limits(modes, servo_id) ==
    LET mode == DictGet(modes, servo_id, SCSCL_MODE_NONE)
    IN  builtin_id = SCSCL_BROADCAST_ID \/ mode # SCSCL_MODE_MOTOR

\* set_motor_speed, up to its first transaction
set_motor_speed(c, servo_id, speed) ==
    /\ c \in callers
    /\ call[c].pc = "idle"
    /\ LET r == Enter("set_motor_speed", servo_id, 0, speed, 0)
       IN  call' = [call EXCEPT ![c] =
              IF ~motor_in_range(speed)
              THEN Finish(r, "OutOfRange", <<>>)
              ELSE IF motor_needs_limits(servo_modes, servo_id)
              THEN begin_write_memory(
                       [r EXCEPT !.mode = DictGet(servo_modes, servo_id, SCSCL_MODE_NONE)],
                       "limit", servo_id, SCSCL_MIN_ANGLE_LIMIT, <<0, 0, 0, 0>>)
              ELSE motor_goal(
                       [r EXCEPT !.mode = DictGet(servo_modes, servo_id, SCSCL_MODE_NONE)])]
    /\ stale' = StaleWhen(call'[c], uart_in, wire)
    /\ UNCHANGED <<servo_modes, uart_in, wire, unanswered, env, mock_addrs, prev, callers, device>>
    /\ UNCHANGED codec_vars

set_all_motor_speeds(c, speed) == set_motor_speed(c, SCSCL_BROADCAST_ID, speed)

\* _read_memory, lines 188-189: the READ message is built
begin_read_memory(r, stage, servo_id, addr, length) ==
    [r EXCEPT !.pc = "reset", !.stage = stage, !.kind = "read",
              !.m = ScsMessage(servo_id, SCSCL_READ_DATA, <<addr, length>>)]

\* int.from_bytes(data, "big")
RECURSIVE int_from_bytes_big(_)
int_from_bytes_big(b) ==
    IF b = <<>> THEN 0
    ELSE 256 * int_from_bytes_big(SubSeq(b, 1, Len(b) - 1)) + b[Len(b)]

\* StartCall, were the controller to hold a lock for the length of a call
StartCall_holding_lock(c, r) ==
    /\ c \in callers
    /\ call[c].pc = "idle"
    /\ \A k \in callers : call[k].pc = "idle"
    /\ call' = [call EXCEPT ![c] = r]
    /\ stale' = StaleWhen(r, uart_in, wire)
    /\ UNCHANGED <<servo_modes, uart_in, wire, unanswered, env, mock_addrs, prev, callers, device>>
    /\ UNCHANGED codec_vars

\* a public operation that starts with a register transaction at once
StartCall(c, r) ==
    /\ c \in callers
    /\ call[c].pc = "idle"
    /\ call' = [call EXCEPT ![c] = r]
    /\ stale' = StaleWhen(r, uart_in, wire)
    /\ UNCHANGED <<servo_modes, uart_in, wire, unanswered, env, mock_addrs, prev, callers, device>>
    /\ UNCHANGED codec_vars

\* stop, were it to write 1 to the torque-enable register
stop_enabling_torque(c, servo_id) ==
    StartCall(c, begin_write_memory(Enter("stop", servo_id, 0, 0, 0),
                  "torque", servo_id, SCSCL_TORQUE_ENABLE, <<1>>))

\* stop, were it to drop the cache entry of the servo it stops
stop_forgetting_mode(c, servo_id) ==
    /\ c \in callers
    /\ call[c].pc = "idle"
    /\ call' = [call EXCEPT ![c] =
          begin_write_memory(Enter("stop", servo_id, 0, 0, 0),
              "torque", servo_id, SCSCL_TORQUE_ENABLE, <<0>>)]
    /\ servo_modes' = [k \in (DOMAIN servo_modes) \ {servo_id} |-> servo_modes[k]]
    /\ stale' = StaleWhen(call'[c], uart_in, wire)
    /\ UNCHANGED <<uart_in, wire, unanswered, env, mock_addrs, prev, callers, device>>
    /\ UNCHANGED codec_vars

\* stop, lines 279-283
stop(c, servo_id) ==
    StartCall(c, begin_write_memory(Enter("stop", servo_id, 0, 0, 0),
                  "torque", servo_id, SCSCL_TORQUE_ENABLE, <<0>>))

\* stop_all, lines 285-287
stop_all(c) == stop(c, SCSCL_BROADCAST_ID)

\* change_id, were it to start by setting the lock instead of releasing it
change_id_locking_first(c, old_servo_id, new_servo_id) ==
    StartCall(c, begin_write_memory(
                  Enter("change_id", old_servo_id, 0, 0, new_servo_id),
                  "release", old_servo_id, SCSCL_LOCK, <<1>>))

\* change_id, line 295, with _release_lock, lines 198-199
change_id(c, old_servo_id, new_servo_id) ==
    StartCall(c, begin_write_memory(
                  Enter("change_id", old_servo_id, 0, 0, new_servo_id),
                  "release", old_servo_id, SCSCL_LOCK, <<0>>))

\* position, line 238
position(c, servo_id) ==
    StartCall(c, begin_read_memory(Enter("position", servo_id, 0, 0, 0),
                  "read", servo_id, SCSCL_PRESENT_POSITION, 2))

\* is_moving, line 303
is_moving(c, servo_id) ==
    StartCall(c, begin_read_memory(Enter("is_moving", servo_id, 0, 0, 0),
                  "read", servo_id, SCSCL_MOVING, 1))

\* load, line 310
load(c, servo_id) ==
    StartCall(c, begin_read_memory(Enter("load", servo_id, 0, 0, 0),
                  "read", servo_id, SCSCL_PRESENT_LOAD, 2))

\* speed, line 317
speed(c, servo_id) ==
    StartCall(c, begin_read_memory(Enter("speed", servo_id, 0, 0, 0),
                  "read", servo_id, SCSCL_PRESENT_SPEED, 2))

\* the mock transport: the reply it queues when `frame` is written to it
MockAck == to_bytes(ScsMessage(1, 0, <<>>))
MockReply(frame) ==
    IF /\ env = "mock"
       /\ Len(frame) >= 6
       /\ At(frame, 2) = 1
       /\ At(frame, 4) = SCSCL_WRITE_DATA
       /\ At(frame, 5) \in mock_addrs
    THEN MockAck
    ELSE <<>>

\* a transport that answers by itself: the mock, or (env "acks") one on which
\* the servo addressed acknowledges every frame, with status 0, at once
TransportReply(frame) ==
    IF env = "acks" /\ At(frame, 2) # SCSCL_BROADCAST_ID
    THEN to_bytes(ScsMessage(At(frame, 2), 0, <<>>))
    ELSE MockReply(frame)

\* the bus ids at which a servo listens
DeviceIds == {1, 2}

\* the servo with its registers as shipped: id 1, locked
NewDevice ==
    [id |-> 1, lock |-> 1, pending |-> <<>>, limits |-> [d \in DeviceIds |-> <<>>]]

\* frame is a WRITE that the servo with bus id d listens to
Addressed(d, frame) ==
    /\ Len(frame) >= 8
    /\ At(frame, 4) = SCSCL_WRITE_DATA
    /\ At(frame, 2) \in {d, SCSCL_BROADCAST_ID}

\* the servo carries out a write to its id or lock register
Execute(dev, frame) ==
    IF ~Addressed(dev.id, frame) THEN dev
    ELSE IF At(frame, 5) = SCSCL_ID THEN [dev EXCEPT !.id = At(frame, 6)]
    ELSE IF At(frame, 5) = SCSCL_LOCK THEN [dev EXCEPT !.lock = At(frame, 6)]
    ELSE dev

\* a request frame reaches the servos: the one at each bus id notes the
\* angle-limit bytes of a write it listens to
Receive(dev, frame) ==
    [dev EXCEPT !.pending = frame,
                !.limits = [d \in DeviceIds |->
                    IF Addressed(d, frame) /\ At(frame, 5) = SCSCL_MIN_ANGLE_LIMIT
                    THEN Slice(frame, 6, Len(frame) - 1)
                    ELSE dev.limits[d]]]

\* uart_reset_input_buffer, were the buffer left as it is
uart_reset_input_buffer_keeping_bytes(c) ==
    /\ c \in callers
    /\ call[c].pc = "reset"
    /\ call' = [call EXCEPT ![c].pc = "write", ![c].cleared = @ + 1]
    /\ UNCHANGED <<servo_modes, uart_in, wire, unanswered, env, mock_addrs, prev, callers,
                   device, stale>>
    /\ UNCHANGED codec_vars

\* self.uart.reset_input_buffer(), lines 182 and 190
uart_reset_input_buffer(c) ==
    /\ c \in callers
    /\ call[c].pc = "reset"
    /\ uart_in' = <<>>
    /\ call' = [call EXCEPT ![c].pc = "write", ![c].cleared = @ + 1,
                            ![c].discarded = @ + Len(uart_in)]
    /\ stale' = [buffered |-> 0, old |-> Max(stale.old - Len(uart_in), 0)]
    /\ UNCHANGED <<servo_modes, wire, unanswered, env, mock_addrs, prev, callers, device>>
    /\ UNCHANGED codec_vars

\* self.uart.write(m.to_bytes()), lines 183 and 191
uart_write(c) ==
    /\ c \in callers
    /\ call[c].pc = "write"
    /\ LET frame == to_bytes(call[c].m)
       IN  /\ call' = [call EXCEPT ![c].pc = "read_header",
                                   ![c].written = Append(@, frame)]
           /\ wire' = wire \o TransportReply(frame)
           /\ device' =
                 IF \/ TransportReply(frame) # <<>>
                    \/ env = "quiet" /\ At(frame, 2) = SCSCL_BROADCAST_ID
                 THEN [Execute(Receive(device, frame), frame) EXCEPT !.pending = <<>>]
                 ELSE Receive(device, frame)
    /\ unanswered' =
          IF \/ env = "bus"
             \/ env = "quiet" /\ call[c].m.id # SCSCL_BROADCAST_ID
          THEN unanswered + 1
          ELSE unanswered
    /\ UNCHANGED <<servo_modes, uart_in, env, mock_addrs, prev, callers, stale>>
    /\ UNCHANGED codec_vars

\* invalid_param_length, were a negative length let through
invalid_param_length_above_only(param_length) ==
    param_length > MAX_PARAM_LENGTH

\* _read_message, line 168
invalid_param_length(param_length) ==
    param_length < 0 \/ param_length > MAX_PARAM_LENGTH

\* read_message_header, were the wait of lines 164-165 missing: readinto
\* fills what has arrived and leaves the rest of the 6 bytes 0
read_message_header_not_waiting(c) ==
    /\ c \in callers
    /\ call[c].pc = "read_header"
    /\ uart_in # <<>>
    /\ LET n == Min(Len(uart_in), SCSCL_MIN_PACKET_LENGTH)
           payload == [i \in 1..SCSCL_MIN_PACKET_LENGTH |->
                          IF i <= n THEN uart_in[i] ELSE 0]
           param_length == At(payload, 3) - 2
           r == [call[c] EXCEPT !.payload = payload, !.param_length = param_length]
       IN  /\ uart_in' = SubSeq(uart_in, n + 1, Len(uart_in))
           /\ call' = [call EXCEPT ![c] =
                  IF param_length < 0 \/ param_length > MAX_PARAM_LENGTH
                  THEN Finish([r EXCEPT !.replies = @ + 1],
                              "InvalidParameterLength", <<>>)
                  ELSE [r EXCEPT !.pc = "read_rest"]]
    /\ stale' = StaleAfterRead(Min(Len(uart_in), SCSCL_MIN_PACKET_LENGTH))
    /\ UNCHANGED <<servo_modes, wire, unanswered, env, mock_addrs, prev, callers, device>>
    /\ UNCHANGED codec_vars

\* _read_message, lines 163-169: wait for 6 bytes, read them, check the length
read_message_header(c) ==
    /\ c \in callers
    /\ call[c].pc = "read_header"
    /\ Len(uart_in) >= SCSCL_MIN_PACKET_LENGTH
    /\ LET payload == SubSeq(uart_in, 1, SCSCL_MIN_PACKET_LENGTH)
           param_length == At(payload, 3) - 2
           r == [call[c] EXCEPT !.payload = payload, !.param_length = param_length]
       IN  /\ uart_in' = SubSeq(uart_in, SCSCL_MIN_PACKET_LENGTH + 1, Len(uart_in))
           /\ call' = [call EXCEPT ![c] =
                  IF invalid_param_length(param_length)
                  THEN Finish([r EXCEPT !.replies = @ + 1],
                              "InvalidParameterLength", <<>>)
                  ELSE [r EXCEPT !.pc = "read_rest"]]
    /\ stale' = StaleAfterRead(SCSCL_MIN_PACKET_LENGTH)
    /\ UNCHANGED <<servo_modes, wire, unanswered, env, mock_addrs, prev, callers, device>>
    /\ UNCHANGED codec_vars

\* what the operation does once a transaction's reply has been parsed:
\* _write_memory lines 185-186, _read_memory line 193, then the rest of the
\* public operation (lines 218-225, 259-269, 239, 296-297, 304, 311, 318)
AfterReply(r0, reply, modes) ==
    LET r == [r0 EXCEPT !.reply = reply]
    IN  IF r.kind = "write" /\ reply.instruction # 0
        THEN [call |-> Finish(r, "DeviceError", <<reply.instruction>>), modes |-> modes]
        ELSE IF r.op = "set_position" /\ r.stage = "limit"
        THEN [call |-> position_goal(r),
              modes |-> DictSet(modes, r.servo_id, SCSCL_MODE_SERVO)]
        ELSE IF r.op = "set_motor_speed" /\ r.stage = "limit"
        THEN [call |-> motor_goal(r),
              modes |-> DictSet(modes, r.servo_id, SCSCL_MODE_MOTOR)]
        ELSE IF r.op = "change_id" /\ r.stage = "release"
        THEN [call |-> begin_write_memory(r, "id", r.servo_id, SCSCL_ID, <<r.new_id>>),
              modes |-> modes]
        ELSE IF r.op = "change_id" /\ r.stage = "id"
        THEN [call |-> begin_write_memory(r, "lock", r.new_id, SCSCL_LOCK, <<1>>),
              modes |-> modes]
        ELSE IF r.op \in {"position", "load", "speed"}
        THEN [call |-> Finish(r, "ok", <<int_from_bytes_big(reply.parameters)>>),
              modes |-> modes]
        ELSE IF r.op = "is_moving"
        THEN [call |-> IF reply.parameters = <<>>
                       THEN Finish(r, "IndexError", <<>>)
                       ELSE Finish(r, "ok", <<At(reply.parameters, 0) # 0>>),
              modes |-> modes]
        ELSE [call |-> Finish(r, "ok", <<>>), modes |-> modes]

\* _read_message, lines 170-178: wait for the parameters, read them, parse
read_message_rest(c) ==
    /\ c \in callers
    /\ call[c].pc = "read_rest"
    /\ Len(uart_in) >= call[c].param_length
    /\ LET n == call[c].param_length
           rest == SubSeq(uart_in, 1, n)
           payload == call[c].payload \o rest
           got == from_bytes(payload)
           r == [call[c] EXCEPT !.payload = payload, !.replies = @ + 1]
           after == AfterReply(r, got.m, servo_modes)
       IN  /\ uart_in' = SubSeq(uart_in, n + 1, Len(uart_in))
           /\ call' = [call EXCEPT ![c] =
                  IF got.exc # "none" THEN Finish(r, got.exc, <<>>) ELSE after.call]
           /\ servo_modes' = IF got.exc # "none" THEN servo_modes ELSE after.modes
           /\ stale' = IF call'[c].pc = "reset"
                       THEN StaleWhen(call'[c], uart_in', wire)
                       ELSE StaleAfterRead(n)
    /\ UNCHANGED <<wire, unanswered, env, mock_addrs, prev, callers, device>>
    /\ UNCHANGED codec_vars

\* the operation has returned or raised; the caller may call again
NoCall == [op |-> "none", servo_id |-> 0, result |-> "none"]
Return(c) ==
    /\ c \in callers
    /\ call[c].pc = "done"
    /\ prev' = [op |-> call[c].op, servo_id |-> call[c].servo_id,
                result |-> IF call[c].result = "ok" THEN "ok" ELSE "raised"]
    /\ call' = [call EXCEPT ![c] = IdleCall]
    /\ UNCHANGED <<servo_modes, uart_in, wire, unanswered, env, mock_addrs, callers, device, stale>>
    /\ UNCHANGED codec_vars

(***************************************************************************)
(* The bus: a device starts to transmit a frame, its bytes arrive a few at *)
(* a time.                                                                 *)
(***************************************************************************)
\* room of the input buffer in the model
MaxInBuf == 8
\* how many bytes reach the input buffer in one step
ChunkLen == 3

DeviceFrames ==
    { to_bytes(ScsMessage(1, 0, <<>>)),            \* acknowledgment, status 0
      to_bytes(ScsMessage(1, 32, <<>>)),           \* acknowledgment, status 0x20
      to_bytes(ScsMessage(1, 0, <<1, 244>>)),      \* reply carrying two bytes
      <<255, 255, 1, 2, 0, 253>>,                  \* wrong checksum
      <<255, 0, 1, 2, 0, 252>>,                    \* wrong sync
      <<255, 255, 1, 1, 0, 253>> }                 \* length byte below 2

\* a device transmits only in answer to a request, and once; a reply whose
\* status byte it sent as 0 tells that it has carried the request out
DeviceSend(frame) ==
    /\ env \in {"bus", "quiet"}
    /\ unanswered > 0
    /\ wire = <<>>
    /\ uart_in = <<>> \/ Len(uart_in) + Len(frame) <= MaxInBuf
    /\ wire' = frame
    /\ unanswered' = unanswered - 1
    /\ device' = [(IF Len(frame) >= 5 /\ At(frame, 4) = 0
                   THEN Execute(device, device.pending)
                   ELSE device) EXCEPT !.pending = <<>>]
    /\ UNCHANGED <<servo_modes, uart_in, env, mock_addrs, call, prev, callers, stale>>
    /\ UNCHANGED codec_vars

\* the next bytes on the wire (at most ChunkLen of them) reach the buffer
BytesArrive ==
    /\ wire # <<>>
    /\ LET n == Min(ChunkLen, Len(wire))
       IN  /\ uart_in' = uart_in \o SubSeq(wire, 1, n)
           /\ wire' = SubSeq(wire, n + 1, Len(wire))
    /\ UNCHANGED <<servo_modes, unanswered, env, mock_addrs, call, prev, callers, device, stale>>
    /\ UNCHANGED codec_vars

(***************************************************************************)
(* The controller with one caller.                                         *)
(***************************************************************************)
Callers == {1, 2}
ServoIds == {1, 2}
\* (pos, speed) pairs at and around the limits of set_position
PositionArgs ==
    {<<0, 0>>, <<1023, 1500>>,
     <<-1, 0>>, <<1024, 0>>, <<0, -1>>, <<0, 1501>>, <<1024, 1501>>}
MotorSpeeds == {-1024, -1023, 1023, 1024}

NoFlip == [kind |-> "none", at |-> 0, bit |-> 0]

CodecOff ==
    /\ msg = NoMessage
    /\ data = <<>>
    /\ parsed = Raised("none")
    /\ cstage = "off"
    /\ flip = NoFlip

\* __init__, lines 158-160
InitController ==
    /\ servo_modes = <<>>
    /\ uart_in = <<>>
    /\ wire = <<>>
    /\ unanswered = 0
    /\ call = [c \in Callers |-> IdleCall]
    /\ prev = NoCall
    /\ device = NewDevice
    /\ stale = NoStale

Init ==
    /\ CodecOff
    /\ InitController
    /\ callers = {1}
    /\ env = "bus"
    /\ mock_addrs = {}

Next ==
    \/ \E c \in Callers, d \in ServoIds, a \in PositionArgs :
          set_position(c, d, a[1], a[2])
    \/ \E c \in Callers, a \in PositionArgs : set_all_positions(c, a[1], a[2])
    \/ \E c \in Callers, d \in ServoIds, v \in MotorSpeeds :
          set_motor_speed(c, d, v)
    \/ \E c \in Callers, v \in MotorSpeeds : set_all_motor_speeds(c, v)
    \/ \E c \in Callers : uart_reset_input_buffer(c)
    \/ \E c \in Callers : uart_write(c)
    \/ \E c \in Callers : read_message_header(c)
    \/ \E c \in Callers : read_message_rest(c)
    \/ \E c \in Callers : Return(c)
    \/ \E f \in DeviceFrames : DeviceSend(f)
    \/ BytesArrive

Spec == Init /\ [][Next]_vars

(***************************************************************************)
(* The controller with one caller and its whole public surface.           *)
(***************************************************************************)
OpsDeviceFrames ==
    DeviceFrames \cup { to_bytes(ScsMessage(1, 0, <<1>>)),      \* one byte
                        <<255, 255, 1, 255, 0, 0>> }            \* length 255

NextOps ==
    \/ \E c \in Callers : set_position(c, 1, 512, 500)
    \/ \E c \in Callers : set_all_positions(c, 512, 500)
    \/ \E c \in Callers : set_motor_speed(c, 1, -500)
    \/ \E c \in Callers : set_all_motor_speeds(c, 500)
    \/ \E c \in Callers : stop(c, 1)
    \/ \E c \in Callers : stop_all(c)
    \/ \E c \in Callers : change_id(c, 1, 2)
    \/ \E c \in Callers : position(c, 1)
    \/ \E c \in Callers : is_moving(c, 1)
    \/ \E c \in Callers : load(c, 1)
    \/ \E c \in Callers : speed(c, 1)
    \/ \E c \in Callers : uart_reset_input_buffer(c)
    \/ \E c \in Callers : uart_write(c)
    \/ \E c \in Callers : read_message_header(c)
    \/ \E c \in Callers : read_message_rest(c)
    \/ \E c \in Callers : Return(c)
    \/ \E f \in OpsDeviceFrames : DeviceSend(f)
    \/ BytesArrive

SpecOps == Init /\ [][NextOps]_vars

(***************************************************************************)
(* change_id alone, renaming the servo back and forth, with replies that   *)
(* acknowledge, refuse, or are damaged on the way.                         *)
(***************************************************************************)
ChangeDeviceFrames ==
    DeviceFrames \cup { <<255, 255, 1, 2, 32, 253>> }   \* status 0x20, wrong checksum

NextChange ==
    \/ \E c \in Callers : change_id(c, 1, 2)
    \/ \E c \in Callers : change_id(c, 2, 1)
    \/ \E c \in Callers : uart_reset_input_buffer(c)
    \/ \E c \in Callers : uart_write(c)
    \/ \E c \in Callers : read_message_header(c)
    \/ \E c \in Callers : read_message_rest(c)
    \/ \E c \in Callers : Return(c)
    \/ \E f \in ChangeDeviceFrames : DeviceSend(f)
    \/ BytesArrive

SpecChange == Init /\ [][NextChange]_vars

(***************************************************************************)
(* stop and stop_all on a bus whose servos answer every request ("bus") or *)
(* every request but those sent to the broadcast id ("quiet").             *)
(***************************************************************************)
InitQuiet ==
    /\ CodecOff
    /\ InitController
    /\ callers = {1}
    /\ env \in {"bus", "quiet"}
    /\ mock_addrs = {}

NextQuiet ==
    \/ \E c \in Callers : stop_all(c)
    \/ \E c \in Callers, d \in ServoIds : stop(c, d)
    \/ \E c \in Callers : position(c, 1)
    \/ \E c \in Callers : uart_reset_input_buffer(c)
    \/ \E c \in Callers : uart_write(c)
    \/ \E c \in Callers : read_message_header(c)
    \/ \E c \in Callers : read_message_rest(c)
    \/ \E c \in Callers : Return(c)
    \/ \E f \in DeviceFrames : DeviceSend(f)
    \/ BytesArrive

SpecQuiet == InitQuiet /\ [][NextQuiet]_vars

(***************************************************************************)
(* stop and is_moving against replies of every kind of length byte:        *)
(* 0, 1, 2, 3, 4, 254 (the longest frame), 255.                            *)
(***************************************************************************)
LengthFrames ==
    { <<255, 255, 1, 0, 0, 254>>,                               \* length byte 0
      <<255, 255, 1, 1, 0, 253>>,                               \* length byte 1
      to_bytes(ScsMessage(1, 0, <<>>)),                         \* 2
      to_bytes(ScsMessage(1, 0, <<7>>)),                        \* 3
      to_bytes(ScsMessage(1, 0, <<1, 244>>)),                   \* 4
      <<255, 255, 1, 4, 0, 0, 9, 9>>,                           \* 4, wrong checksum
      <<255, 0, 1, 3, 0, 0, 9>>,                                \* 3, wrong sync
      to_bytes(ScsMessage(1, 0, [k \in 1..MAX_PARAM_LENGTH |-> 0])),  \* 254
      <<255, 255, 1, 255, 0, 0>> }                              \* 255

NextFrames ==
    \/ \E c \in Callers : stop(c, 1)
    \/ \E c \in Callers : is_moving(c, 1)
    \/ \E c \in Callers : uart_reset_input_buffer(c)
    \/ \E c \in Callers : uart_write(c)
    \/ \E c \in Callers : read_message_header(c)
    \/ \E c \in Callers : read_message_rest(c)
    \/ \E c \in Callers : Return(c)
    \/ \E f \in LengthFrames : DeviceSend(f)
    \/ BytesArrive

SpecFrames == Init /\ [][NextFrames]_vars

(***************************************************************************)
(* stop and position on a line that may fall silent: a servo answers with  *)
(* a whole frame, with the beginning of one, or not at all.  The caller's  *)
(* polling loops keep running and bytes on the wire reach the buffer.      *)
(***************************************************************************)
BlockFrames ==
    { <<>>,                                        \* no answer
      <<255, 255, 1>>,                             \* 3 bytes, then silence
      <<255, 255, 1, 4, 0>>,                       \* 5 bytes, then silence
      <<255, 255, 1, 4, 0, 0>>,                    \* 6 bytes that announce 2 more
      <<255, 255, 1, 4, 0, 0, 9>>,                 \* and only 1 of the 2
      <<255, 255, 1, 1, 0, 253>>,                  \* length byte below 2
      to_bytes(ScsMessage(1, 0, <<>>)),
      to_bytes(ScsMessage(1, 32, <<>>)),
      to_bytes(ScsMessage(1, 0, <<1, 244>>)) }

NextBlock ==
    \/ \E c \in Callers : stop(c, 1)
    \/ \E c \in Callers : position(c, 1)
    \/ \E c \in Callers : uart_reset_input_buffer(c)
    \/ \E c \in Callers : uart_write(c)
    \/ \E c \in Callers : read_message_header(c)
    \/ \E c \in Callers : read_message_rest(c)
    \/ \E c \in Callers : Return(c)
    \/ \E f \in BlockFrames : DeviceSend(f)
    \/ BytesArrive

SpecBlock ==
    /\ Init
    /\ [][NextBlock]_vars
    /\ WF_vars(\E c \in Callers : read_message_header(c))
    /\ WF_vars(\E c \in Callers : read_message_rest(c))
    /\ WF_vars(BytesArrive)

(***************************************************************************)
(* stop and position against replies that are longer than what the caller  *)
(* reads of them: the transaction raises and leaves bytes unread.          *)
(***************************************************************************)
StaleFrames ==
    { to_bytes(ScsMessage(1, 0, <<>>)),
      to_bytes(ScsMessage(1, 0, <<1, 244>>)),
      <<255, 255, 1, 1, 0, 253, 9, 9>>,     \* length byte 1, and 2 bytes more
      <<255, 255, 1, 2, 0, 253, 7>>,        \* wrong checksum, and 1 byte more
      <<255, 0, 1, 2, 0, 252, 7>> }         \* wrong sync, and 1 byte more

NextStale ==
    \/ \E c \in Callers : stop(c, 1)
    \/ \E c \in Callers : position(c, 1)
    \/ \E c \in Callers : uart_reset_input_buffer(c)
    \/ \E c \in Callers : uart_write(c)
    \/ \E c \in Callers : read_message_header(c)
    \/ \E c \in Callers : read_message_rest(c)
    \/ \E c \in Callers : Return(c)
    \/ \E f \in StaleFrames : DeviceSend(f)
    \/ BytesArrive

SpecStale == Init /\ [][NextStale]_vars

(***************************************************************************)
(* Two callers on one controller, nothing serializing them: caller c       *)
(* addresses servo c, and each servo acknowledges what it is sent.         *)
(***************************************************************************)
InitTwo ==
    /\ CodecOff
    /\ InitController
    /\ callers = {1, 2}
    /\ env = "acks"
    /\ mock_addrs = {}

NextTwo ==
    \/ \E c \in Callers : stop(c, c)
    \/ \E c \in Callers : is_moving(c, c)
    \/ \E c \in Callers : uart_reset_input_buffer(c)
    \/ \E c \in Callers : uart_write(c)
    \/ \E c \in Callers : read_message_header(c)
    \/ \E c \in Callers : read_message_rest(c)
    \/ \E c \in Callers : Return(c)
    \/ BytesArrive

SpecTwo == InitTwo /\ [][NextTwo]_vars

(***************************************************************************)
(* The controller on a mock transport that acknowledges, with the frame    *)
(* FF FF 01 02 00 FC, the WRITE frames for device 1 at chosen addresses.   *)
(***************************************************************************)
InitMock ==
    /\ CodecOff
    /\ InitController
    /\ callers = {1}
    /\ env = "mock"
    /\ mock_addrs \in {{SCSCL_GOAL_POSITION},
                       {SCSCL_MIN_ANGLE_LIMIT, SCSCL_GOAL_POSITION}}

NextMock ==
    \/ \E c \in Callers, d \in ServoIds, a \in PositionArgs \cup {<<512, 500>>} :
          set_position(c, d, a[1], a[2])
    \/ \E c \in Callers, d \in ServoIds, v \in MotorSpeeds :
          set_motor_speed(c, d, v)
    \/ \E c \in Callers : uart_reset_input_buffer(c)
    \/ \E c \in Callers : uart_write(c)
    \/ \E c \in Callers : read_message_header(c)
    \/ \E c \in Callers : read_message_rest(c)
    \/ \E c \in Callers : Return(c)
    \/ BytesArrive

SpecMock == InitMock /\ [][NextMock]_vars

(***************************************************************************)
(* set_motor_speed over its whole range of speeds, on a transport that     *)
(* acknowledges every write to device 1.                                   *)
(***************************************************************************)
AllMotorSpeeds == (SCSCL_MIN_MOTOR_SPEED - 1)..(SCSCL_MAX_MOTOR_SPEED + 1)

InitSpeed ==
    /\ CodecOff
    /\ InitController
    /\ callers = {1}
    /\ env = "mock"
    /\ mock_addrs = {SCSCL_MIN_ANGLE_LIMIT, SCSCL_GOAL_TIME}

NextSpeed ==
    \/ \E c \in callers :
          /\ call[c].pc = "idle"
          /\ \E v \in AllMotorSpeeds : set_motor_speed(c, 1, v)
    \/ \E c \in Callers : uart_reset_input_buffer(c)
    \/ \E c \in Callers : uart_write(c)
    \/ \E c \in Callers : read_message_header(c)
    \/ \E c \in Callers : read_message_rest(c)
    \/ \E c \in Callers : Return(c)
    \/ BytesArrive

SpecSpeed == InitSpeed /\ [][NextSpeed]_vars

(***************************************************************************)
(* Codec harness: a message is serialized, the frame is optionally edited  *)
(* (one bit flipped, one byte replaced, truncated), and parsed.            *)
(***************************************************************************)
IdBytes == {0, 1, 253, 254, 255}
InstructionBytes == {0, 2, 3, 255}
ParamBytes == {0, 1, 128, 255}
EditBytes == {0, 1, 3, 4, 255}

RECURSIVE SeqsUpTo(_, _)
SeqsUpTo(S, n) ==
    IF n = 0 THEN {<<>>}
    ELSE LET shorter == SeqsUpTo(S, n - 1)
         IN  shorter \cup {Append(s, x) : s \in {t \in shorter : Len(t) = n - 1}, x \in S}

\* the enumerated messages, and two of the longest the protocol allows
Messages ==
    {ScsMessage(i, n, p) : i \in IdBytes, n \in InstructionBytes,
                           p \in SeqsUpTo(ParamBytes, MaxParams)}
    \cup {ScsMessage(1, 3, [k \in 1..MAX_PARAM_LENGTH |-> b]) : b \in {0, 255}}

InitCodec ==
    /\ InitController
    /\ callers = {}
    /\ env = "bus"
    /\ mock_addrs = {}
    /\ msg \in Messages
    /\ data = <<>>
    /\ parsed = Raised("none")
    /\ cstage = "msg"
    /\ flip = NoFlip

\* m.to_bytes()
Serialize ==
    /\ cstage = "msg"
    /\ data' = to_bytes(msg)
    /\ cstage' = "frame"
    /\ UNCHANGED <<msg, parsed, flip>>
    /\ UNCHANGED bus_vars

\* one bit of one byte of the frame is flipped in transit
FlipOneBit ==
    /\ cstage = "frame"
    /\ \E i \in 0..(Len(data) - 1), k \in 0..7 :
          /\ i < 8 \/ i >= Len(data) - 2
          /\ data' = [data EXCEPT ![i + 1] = FlipBit(@, k)]
          /\ flip' = [kind |-> "bit", at |-> i, bit |-> k]
    /\ cstage' = "raw"
    /\ UNCHANGED <<msg, parsed>>
    /\ UNCHANGED bus_vars

\* one byte of the frame is replaced in transit
ReplaceByte ==
    /\ cstage = "frame"
    /\ Len(data) <= MaxParams + 6
    /\ \E i \in 0..(Len(data) - 1), v \in EditBytes :
          /\ v # At(data, i)
          /\ data' = [data EXCEPT ![i + 1] = v]
          /\ flip' = [kind |-> "byte", at |-> i, bit |-> v]
    /\ cstage' = "raw"
    /\ UNCHANGED <<msg, parsed>>
    /\ UNCHANGED bus_vars

\* the frame loses its tail, or gains one trailing byte
Truncate ==
    /\ cstage \in {"frame", "raw"}
    /\ flip.kind # "cut"
    /\ Len(data) <= MaxParams + 6
    /\ \E n \in 0..(Len(data) + 1) :
          /\ n # Len(data)
          /\ data' = IF n > Len(data) THEN Append(data, 0) ELSE SubSeq(data, 1, n)
          /\ flip' = [kind |-> "cut", at |-> n, bit |-> flip.at]
    /\ cstage' = "raw"
    /\ UNCHANGED <<msg, parsed>>
    /\ UNCHANGED bus_vars

\* ScsMessage.from_bytes(data)
Parse ==
    /\ cstage \in {"frame", "raw"}
    /\ parsed' = from_bytes(data)
    /\ cstage' = "parsed"
    /\ UNCHANGED <<msg, data, flip>>
    /\ UNCHANGED bus_vars

NextCodec == Serialize \/ FlipOneBit \/ ReplaceByte \/ Truncate \/ Parse

SpecCodec == InitCodec /\ [][NextCodec]_vars

(***************************************************************************)
(* Properties.                                                             *)
(***************************************************************************)
\* frame f is a WRITE to device d at register addr
IsWriteTo(f, d, addr) ==
    /\ Len(f) >= 7
    /\ At(f, 2) = d
    /\ At(f, 4) = 3
    /\ At(f, 5) = addr

\* frame f is the angle-limit write (register 0x09) to d carrying `values`
IsLimitWrite(f, d, values) ==
    /\ IsWriteTo(f, d, 9)
    /\ Len(f) = 11
    /\ SubSeq(f, 7, 10) = values

\* some frame the call has written is a write to the angle-limit register
SentLimits(r) ==
    \E i \in 1..Len(r.written) :
        At(r.written[i], 4) = 3 /\ At(r.written[i], 5) = 9

\* the call that completed last was a successful `op` on device d
PrevOk(op, d) == prev = [op |-> op, servo_id |-> d, result |-> "ok"]

\* C1 (as claimed): a successful set_position on a non-broadcast id that
\* directly follows a successful set_position on the same id has written the
\* goal-position frame only, and no angle-limit frame.
C1_SecondPositionSkipsLimits ==
    \A c \in callers :
        LET r == call[c]
        IN  ( /\ r.pc = "done"
              /\ r.op = "set_position"
              /\ r.result = "ok"
              /\ r.servo_id # 254
              /\ PrevOk("set_position", r.servo_id) )
            => /\ ~SentLimits(r)
               /\ Len(r.written) = 1
               /\ IsWriteTo(r.written[1], r.servo_id, 42)

\* C2: once set_motor_speed on a non-broadcast id d has written a frame, its
\* first frame is the angle-limit write [0,0,0,0] to d exactly when the cache
\* entry of d at the call was not Motor, and no later frame is an angle-limit
\* write; directly after a successful set_position(d) the write is issued,
\* directly after a successful set_motor_speed(d) it is not.
C2_MotorLimitsIffNotMotor ==
    \A c \in callers :
        LET r == call[c]
            cached == DictGet(r.modes0, r.servo_id, 0)
            first == IsLimitWrite(r.written[1], r.servo_id, <<0, 0, 0, 0>>)
        IN  ( /\ r.op = "set_motor_speed"
              /\ r.servo_id # 254
              /\ Len(r.written) >= 1 )
            => /\ first <=> (cached # 2)
               /\ SentLimits(r) <=> first
               /\ \A i \in 2..Len(r.written) :
                      IsWriteTo(r.written[i], r.servo_id, 44)
               /\ PrevOk("set_position", r.servo_id) => first
               /\ PrevOk("set_motor_speed", r.servo_id) => ~first

\* C2 witness: a second consecutive successful set_motor_speed on device 1
\* has completed with the goal-time write alone.
C2_Witness ==
    /\ call[1].pc = "done"
    /\ call[1].op = "set_motor_speed"
    /\ call[1].servo_id = 1
    /\ call[1].result = "ok"
    /\ PrevOk("set_motor_speed", 1)
    /\ Len(call[1].written) = 1

\* C3 (as claimed): every set_all_positions and set_all_motor_speeds call
\* that has written a frame has written, first, the angle-limit write
\* addressed to the broadcast id 0xFE.
C3_BroadcastAlwaysSendsLimits ==
    \A c \in callers :
        LET r == call[c]
        IN  ( /\ r.op \in {"set_position", "set_motor_speed"}
              /\ r.servo_id = 254
              /\ Len(r.written) >= 1 )
            => /\ IsWriteTo(r.written[1], 254, 9)
               /\ SubSeq(r.written[1], 7, 10) =
                      IF r.op = "set_position" THEN <<0, 1, 3, 255>>
                                               ELSE <<0, 0, 0, 0>>

\* C7: set_position raises OutOfRange exactly when pos is outside 0..1023 or
\* speed outside 0..1500, set_motor_speed exactly when speed is outside
\* -1023..1023; a call that raised OutOfRange has written no frame, has not
\* cleared the input buffer and has left _servo_modes as it was.
C7_OutOfRange ==
    \A c \in callers :
        LET r == call[c]
        IN  /\ r.op = "set_position" =>
                ( r.result = "OutOfRange" <=>
                    (r.pos \notin 0..1023 \/ r.speed \notin 0..1500) )
            /\ r.op = "set_motor_speed" =>
                ( r.result = "OutOfRange" <=> r.speed \notin (-1023)..1023 )
            /\ r.result = "OutOfRange" =>
                /\ r.pc = "done"
                /\ r.written = <<>>
                /\ r.cleared = 0
                /\ servo_modes = r.modes0

\* C7 witness: set_position with pos = 1024 has raised OutOfRange on a
\* controller whose cache is not empty.
C7_Witness ==
    /\ call[1].pc = "done"
    /\ call[1].op = "set_position"
    /\ call[1].pos = 1024
    /\ call[1].result = "OutOfRange"
    /\ call[1].written = <<>>
    /\ DOMAIN servo_modes # {}

\* the 16-bit big-endian value a goal-time write carries
GoalTimeValue(f) == At(f, 6) * 256 + At(f, 7)

\* C8: the goal-time frame set_motor_speed(d, speed) writes is the WRITE of
\* two bytes to register 0x2C whose big-endian value is -speed for a
\* negative speed and speed + 1024 otherwise; the value lies in 1..2047 and
\* no other speed in -1023..1023 gives it.
C8_MotorSpeedEncoding ==
    \A c \in callers :
        LET r == call[c]
            f == r.written[Len(r.written)]
            value == IF r.speed < 0 THEN -r.speed ELSE r.speed + 1024
        IN  /\ ( r.op = "set_motor_speed" /\ r.pc = "done" /\ r.result = "ok" )
                => r.stage = "goal"
            /\ ( /\ r.op = "set_motor_speed"
                 /\ r.stage = "goal"
                 /\ r.pc \in {"read_header", "read_rest", "done"} )
                => /\ IsWriteTo(f, r.servo_id, 44)
                   /\ Len(f) = 9
                   /\ At(f, 3) = 5
                   /\ GoalTimeValue(f) = value
                   /\ At(f, 6) \in 0..255 /\ At(f, 7) \in 0..255
                   /\ value \in 1..2047
                   /\ r.pc = "done" =>
                        \A other \in (-1023)..1023 :
                            other # r.speed =>
                                motor_speed_value(other) # GoalTimeValue(f)

\* C8 witness: set_motor_speed(1, -500) has completed, having written the
\* bytes 01 F4 to the goal-time register.
C8_Witness ==
    /\ call[1].pc = "done"
    /\ call[1].op = "set_motor_speed"
    /\ call[1].speed = -500
    /\ call[1].result = "ok"
    /\ SubSeq(call[1].written[Len(call[1].written)], 6, 8) = <<44, 1, 244>>

\* the first call on a fresh controller is set_position(1, 512, 500)
FreshExampleCall(r) ==
    /\ prev = NoCall
    /\ r.modes0 = <<>>
    /\ r.op = "set_position"
    /\ r.servo_id = 1
    /\ r.pos = 512
    /\ r.speed = 500

\* C9 (as claimed): with the mock that acknowledges only the WRITE frames
\* for device 1 at register 0x2A, set_position(1, 512, 500) on a fresh
\* controller never raises and never stops before it has returned.
C9_CompletesOnGoalOnlyMock ==
    \A c \in callers :
        LET r == call[c]
        IN  ( mock_addrs = {42} /\ FreshExampleCall(r) )
            => /\ r.pc = "done" => r.result = "ok"
               /\ r.pc # "done" => ENABLED NextMock

\* C9 (amended): with the mock that acknowledges the WRITE frames for
\* device 1 at registers 0x09 and 0x2A, set_position(1, 512, 500) on a fresh
\* controller never raises and never stops before it has returned.
C9_CompletesOnWriteMock ==
    \A c \in callers :
        LET r == call[c]
        IN  ( mock_addrs = {9, 42} /\ FreshExampleCall(r) )
            => /\ r.pc = "done" => r.result = "ok"
               /\ r.pc # "done" => ENABLED NextMock

\* C9 witness: on that mock the call has returned, with both frames written.
C9_Witness ==
    /\ mock_addrs = {9, 42}
    /\ FreshExampleCall(call[1])
    /\ call[1].pc = "done"
    /\ call[1].result = "ok"
    /\ Len(call[1].written) = 2

\* C4: parsing the serialized frame of a message, unedited, succeeds and
\* gives back the message's device id, instruction and parameters.
C4_RoundTrip ==
    ( cstage = "parsed" /\ flip = NoFlip )
        => /\ parsed.exc = "none"
           /\ parsed.m.id = msg.id
           /\ parsed.m.instruction = msg.instruction
           /\ parsed.m.parameters = msg.parameters

\* C4 witness: a message with 252 parameter bytes has made the round trip.
C4_Witness ==
    /\ cstage = "parsed"
    /\ flip = NoFlip
    /\ Len(msg.parameters) = 252
    /\ parsed.exc = "none"

\* the outcome the claim gives for input d with at least 6 bytes and both
\* sync bytes: the message of d[2], d[4] and the L-2 bytes from offset 5
\* when the byte at offset L+3 is its checksum, else ChecksumMismatch
C5_Claimed(d) ==
    LET L == At(d, 3)
        params == [k \in 1..(L - 2) |-> d[5 + k]]
        m == ScsMessage(At(d, 2), At(d, 4), params)
        s == At(d, 2) + L + At(d, 4) + sum(params)
    IN  IF L >= 2 /\ L + 3 < Len(d) /\ At(d, L + 3) = 255 - (s % 256)
        THEN Parsed(m)
        ELSE Raised("ChecksumMismatch")

\* C5 (as claimed): from_bytes raises FrameTooShort on fewer than 6 bytes,
\* else InvalidSync unless both sync bytes are 0xFF, else ChecksumMismatch or
\* the message of exactly L-2 parameter bytes, and nothing else, whatever L.
C5_ParseOutcomes ==
    cstage = "parsed"
        => /\ parsed.exc \in {"FrameTooShort", "InvalidSync", "ChecksumMismatch", "none"}
           /\ parsed.exc = "FrameTooShort" <=> Len(data) < 6
           /\ parsed.exc = "InvalidSync" <=>
                (Len(data) >= 6 /\ (At(data, 0) # 255 \/ At(data, 1) # 255))
           /\ ( Len(data) >= 6 /\ At(data, 0) = 255 /\ At(data, 1) = 255 )
                => parsed = C5_Claimed(data)

\* C6: a serialized frame with one bit flipped in its device id byte, its
\* instruction byte or a parameter byte fails to parse with ChecksumMismatch.
C6_BitFlipDetected ==
    ( /\ cstage = "parsed"
      /\ flip.kind = "bit"
      /\ flip.at \in {2, 4} \cup (5..(Len(msg.parameters) + 4)) )
        => parsed.exc = "ChecksumMismatch"

\* C6 witness: a frame with bit 7 of its last parameter byte flipped has
\* been rejected with ChecksumMismatch.
C6_Witness ==
    /\ cstage = "parsed"
    /\ flip = [kind |-> "bit", at |-> Len(msg.parameters) + 4, bit |-> 7]
    /\ Len(msg.parameters) >= 1
    /\ parsed.exc = "ChecksumMismatch"

\* C10: the serialized frame of a message with n parameter bytes has n + 6
\* bytes: FF, FF, device id, n + 2, instruction, the parameters in order, and
\* the complement, in 8 bits, of device id + (n + 2) + instruction + the sum
\* of the parameters.
C10_FrameLayout ==
    cstage = "frame"
        => LET n == Len(msg.parameters)
               s == msg.id + (n + 2) + msg.instruction + sum(msg.parameters)
           IN  /\ n \in 0..252
               /\ Len(data) = n + 6
               /\ data[1] = 255 /\ data[2] = 255
               /\ data[3] = msg.id
               /\ data[4] = n + 2
               /\ data[5] = msg.instruction
               /\ \A k \in 1..n : data[5 + k] = msg.parameters[k]
               /\ data[n + 6] = 255 - (s % 256)

\* C10 witness: a message with two parameter bytes whose sum overflows a
\* byte has been serialized.
C10_Witness ==
    /\ cstage = "frame"
    /\ msg = ScsMessage(254, 3, <<255, 128>>)
    /\ Len(data) = 8

\* the public operations that are no mode setters
OtherOps == {"stop", "change_id", "position", "is_moving", "load", "speed"}

\* C11: a fresh controller's _servo_modes is empty, and _servo_modes changes
\* only in a step of a set_position or set_motor_speed call (broadcast forms
\* included): no step of stop, stop_all, change_id, position, is_moving,
\* load or speed, whether the call returns or raises, and no step outside a
\* call changes any entry.
C11_OnlySettersChangeModes ==
    /\ servo_modes = <<>>
    /\ [][ servo_modes' # servo_modes =>
              \E c \in callers :
                  /\ call[c].op \in {"set_position", "set_motor_speed"}
                  /\ call'[c] # call[c] ]_vars

\* C11 witness: a stop call has raised DeviceError on a controller whose
\* cache is not empty, and the cache is as it was when the call was entered.
C11_Witness ==
    /\ call[1].op = "stop"
    /\ call[1].pc = "done"
    /\ call[1].result = "DeviceError"
    /\ DOMAIN servo_modes # {}
    /\ servo_modes = call[1].modes0

\* the three frames of change_id(old, new), in order
ChangeIdFrames(old, new) ==
    << <<255, 255, old, 4, 3, 48, 0>> \o <<255 - ((old + 4 + 3 + 48 + 0) % 256)>>,
       <<255, 255, old, 4, 3, 5, new>> \o <<255 - ((old + 4 + 3 + 5 + new) % 256)>>,
       <<255, 255, new, 4, 3, 48, 1>> \o <<255 - ((new + 4 + 3 + 48 + 1) % 256)>> >>

\* how many frames a change_id call at stage `stage` and position pc has written
ChangeIdWritten(r) ==
    (CASE r.stage = "release" -> 1 [] r.stage = "id" -> 2 [] r.stage = "lock" -> 3)
        - (IF r.pc \in {"reset", "write"} THEN 1 ELSE 0)

\* what every change_id call does: the frames it has written are the first
\* of: 0 to the lock register of old, new to the id register of old, 1 to
\* the lock register of new; a step past the first is begun only with the
\* reply to the step before parsed and of status 0; a call that returned has
\* written all three, and a call that raised has written nothing after the
\* step that failed.
ChangeIdSteps(r) ==
    /\ Len(r.written) = ChangeIdWritten(r)
    /\ \A i \in 1..Len(r.written) :
           r.written[i] = ChangeIdFrames(r.servo_id, r.new_id)[i]
    /\ ( r.stage \in {"id", "lock"} /\ r.pc \in {"reset", "write"} )
           => /\ from_bytes(r.payload) = Parsed(r.reply)
              /\ r.reply.instruction = 0
    /\ ( r.pc = "done" /\ r.result = "ok" ) => r.stage = "lock"
    /\ ( r.pc = "done" /\ r.result # "ok" )
           => \/ from_bytes(r.payload).exc # "none"
              \/ from_bytes(r.payload).m.instruction # 0
              \/ invalid_param_length(r.param_length)

\* the servo was named old when the call began, and the call raised in its
\* last step, the write of 1 to the lock register of new
FailedToLock(r) ==
    /\ r.op = "change_id"
    /\ r.device0.id = r.servo_id
    /\ r.pc = "done"
    /\ r.stage = "lock"
    /\ r.result # "ok"

\* C12 (as claimed): change_id performs its three writes in order, each
\* only after the one before was acknowledged with status 0, and sends no
\* compensating write; when it raises in the last step, the servo is renamed
\* and its lock register is still 0.
C12_NoRollbackLockStillZero ==
    \A c \in callers :
        LET r == call[c]
        IN  r.op = "change_id"
            => /\ ChangeIdSteps(r)
               /\ FailedToLock(r) => ( device.id = r.new_id /\ device.lock = 0 )

\* C12 (amended): change_id performs its three writes in order, each only
\* after the one before was acknowledged with status 0, and sends no
\* compensating write; when it raises in the last step, the servo is renamed
\* and has been sent the write of 1 to its lock register: the register is
\* still 0 when the servo refused that write (DeviceError), and is 1 when
\* the servo carried it out and the call raised on the reply.
C12_NoRollback ==
    \A c \in callers :
        LET r == call[c]
        IN  r.op = "change_id"
            => /\ ChangeIdSteps(r)
               /\ FailedToLock(r)
                     => /\ device.id = r.new_id
                        /\ Len(r.written) = 3
                        /\ device.lock \in {0, 1}
                        /\ r.result = "DeviceError" => device.lock = 0
                        /\ device.lock = 1 =>
                              r.result \in {"ChecksumMismatch", "InvalidSync",
                                            "InvalidParameterLength"}

\* C12 witness: change_id(1, 2) on the servo named 1 has raised
\* ChecksumMismatch in its last step; the servo is named 2 and is locked.
C12_Witness ==
    /\ FailedToLock(call[1])
    /\ call[1].servo_id = 1
    /\ call[1].new_id = 2
    /\ call[1].result = "ChecksumMismatch"
    /\ Len(call[1].written) = 3
    /\ device.id = 2
    /\ device.lock = 1

\* the frame FF FF FE 04 03 28 00 D2
StopAllFrame == <<255, 255, 254, 4, 3, 40, 0, 210>>

\* C13: a stop_all call writes nothing but the frame with device id 0xFE,
\* instruction 0x03 and parameters [0x28, 0x00], once, and then waits for a
\* reply frame; on a bus whose servos never answer a broadcast it has
\* neither returned nor raised, and once it waits no step is possible any
\* more: it waits forever.
C13_StopAllWaitsForReply ==
    \A c \in callers :
        LET r == call[c]
        IN  ( r.op = "stop" /\ r.servo_id = 254 )
            => /\ r.written = IF r.pc \in {"reset", "write"}
                              THEN <<>> ELSE <<StopAllFrame>>
               /\ r.cleared = IF r.pc = "reset" THEN 0 ELSE 1
               /\ env = "quiet"
                     => /\ r.pc \in {"reset", "write", "read_header"}
                        /\ r.pc = "read_header"
                              => /\ uart_in = <<>> /\ wire = <<>>
                                 /\ ~ENABLED NextQuiet

\* C13 witness: after an earlier call completed, stop_all has written its
\* frame on the bus that does not answer broadcasts and waits for 6 bytes.
C13_Witness ==
    /\ env = "quiet"
    /\ prev # NoCall
    /\ call[1].op = "stop"
    /\ call[1].servo_id = 254
    /\ call[1].pc = "read_header"
    /\ call[1].written = <<StopAllFrame>>
    /\ Len(uart_in) < 6

\* the register a call's transaction in progress addresses, the values it
\* writes there (or the length it reads), and the servo it addresses
TransactionAddr(r) ==
    CASE r.stage = "limit" -> 9
      [] r.stage = "goal" -> IF r.op = "set_position" THEN 42 ELSE 44
      [] r.stage = "torque" -> 40
      [] r.stage = "release" -> 48
      [] r.stage = "id" -> 5
      [] r.stage = "lock" -> 48
      [] r.stage = "read" ->
            (CASE r.op = "position" -> 56 [] r.op = "speed" -> 58
               [] r.op = "load" -> 60 [] r.op = "is_moving" -> 66)

TransactionValues(r) ==
    CASE r.stage = "limit" ->
            IF r.op = "set_position" THEN <<0, 1, 3, 255>> ELSE <<0, 0, 0, 0>>
      [] r.stage = "goal" ->
            IF r.op = "set_position"
            THEN <<r.pos \div 256, r.pos % 256, 0, 0, r.speed \div 256, r.speed % 256>>
            ELSE LET v == IF r.speed < 0 THEN -r.speed ELSE r.speed + 1024
                 IN  <<v \div 256, v % 256>>
      [] r.stage = "torque" -> <<0>>
      [] r.stage = "release" -> <<0>>
      [] r.stage = "id" -> <<r.new_id>>
      [] r.stage = "lock" -> <<1>>
      [] r.stage = "read" -> IF r.op = "is_moving" THEN <<1>> ELSE <<2>>

TransactionTarget(r) == IF r.stage = "lock" THEN r.new_id ELSE r.servo_id

\* the frame of the transaction in progress: WRITE with [addr] ++ values,
\* or READ with [addr, length]
TransactionFrame(r) ==
    LET params == <<TransactionAddr(r)>> \o TransactionValues(r)
        instr == IF r.stage = "read" THEN 2 ELSE 3
        s == TransactionTarget(r) + (Len(params) + 2) + instr + sum(params)
    IN  <<255, 255, TransactionTarget(r), Len(params) + 2, instr>>
            \o params \o <<255 - (s % 256)>>

\* the reply the call has read parsed, and this is what it parsed to
ReplyParsed(r) ==
    /\ ~(r.param_length < 0 \/ r.param_length > 252)
    /\ from_bytes(r.payload).exc = "none"

\* the parameters of the frame in r.payload: all but 5 leading bytes and
\* the checksum
PayloadParameters(r) == SubSeq(r.payload, 6, Len(r.payload) - 1)

\* the number a 2-byte read returns for parameters p
BigEndian(p) ==
    CASE Len(p) = 0 -> 0 [] Len(p) = 1 -> p[1] [] Len(p) = 2 -> p[1] * 256 + p[2]

\* C14: with one caller, each register transaction of a call clears the
\* input buffer, then writes one frame (WRITE with [addr] ++ values, or READ
\* with [addr, length]), then reads one reply; the next clear and the next
\* frame come only after that read has returned or raised; a write
\* transaction raises DeviceError exactly when the reply parsed and its
\* instruction field is not 0; a read returns the reply's parameters as
\* they are.
C14_TransactionSteps ==
    \A c \in callers :
        LET r == call[c]
            k == Len(r.written)
        IN  ( r.op # "none" /\ r.result # "OutOfRange" )
            => /\ r.pc = "reset" => ( r.cleared = k /\ r.replies = k )
               /\ r.pc = "write" => ( r.cleared = k + 1 /\ r.replies = k )
               /\ r.pc \in {"read_header", "read_rest"}
                     => ( k >= 1 /\ r.cleared = k /\ r.replies = k - 1 )
               /\ r.pc = "done" => ( k >= 1 /\ r.cleared = k /\ r.replies = k )
               /\ r.pc \in {"read_header", "read_rest", "done"}
                     => r.written[k] = TransactionFrame(r)
               /\ r.pc = "read_rest" => ~(r.param_length < 0 \/ r.param_length > 252)
               /\ ( r.pc \in {"reset", "write"} /\ k >= 1 )
                     => ( ReplyParsed(r) /\ from_bytes(r.payload).m.instruction = 0 )
               /\ ( r.pc = "done" /\ r.kind = "write" )
                     => /\ r.result = "DeviceError"
                           <=> ( /\ ReplyParsed(r)
                                 /\ from_bytes(r.payload).m.instruction # 0 )
                        /\ r.result = "ok"
                           <=> ( /\ ReplyParsed(r)
                                 /\ from_bytes(r.payload).m.instruction = 0 )
               /\ ( r.pc = "done" /\ r.kind = "read" /\ ReplyParsed(r) )
                     => /\ r.reply.parameters = PayloadParameters(r)
                        /\ r.op \in {"position", "load", "speed"}
                              => ( /\ r.result = "ok"
                                   /\ r.value = <<BigEndian(PayloadParameters(r))>> )
                        /\ ( r.op = "is_moving" /\ PayloadParameters(r) # <<>> )
                              => ( /\ r.result = "ok"
                                   /\ r.value = <<PayloadParameters(r)[1] # 0>> )
               /\ ( r.pc = "done" /\ r.kind = "read" /\ ~ReplyParsed(r) )
                     => r.result \notin {"ok", "DeviceError"}

\* C14 witness: change_id has raised DeviceError in its second transaction,
\* after two clears, two frames and two replies.
C14_Witness ==
    /\ call[1].op = "change_id"
    /\ call[1].pc = "done"
    /\ call[1].stage = "id"
    /\ call[1].result = "DeviceError"
    /\ call[1].cleared = 2
    /\ Len(call[1].written) = 2
    /\ call[1].replies = 2

\* C15: _read_message first takes exactly 6 bytes from the input buffer; it
\* raises InvalidParameterLength exactly when byte 3 of them minus 2 is
\* negative or above 252, having taken nothing more; otherwise it takes
\* exactly that many further bytes and parses the byte[3] + 4 bytes taken,
\* in the order taken, so that from_bytes raises neither FrameTooShort nor
\* reads past the end of what it was given.
C15_ReadFrameConsumes ==
    [][ \A c \in callers :
          LET r == call[c]
              q == call'[c]
          IN  /\ ( r.pc = "read_header" /\ q.pc # "read_header" )
                    => LET b3 == uart_in[4]
                       IN  /\ Len(uart_in) >= 6
                           /\ uart_in' = SubSeq(uart_in, 7, Len(uart_in))
                           /\ q.payload = SubSeq(uart_in, 1, 6)
                           /\ IF b3 - 2 < 0 \/ b3 - 2 > 252
                              THEN q.pc = "done" /\ q.result = "InvalidParameterLength"
                              ELSE q.pc = "read_rest"
              /\ ( r.pc = "read_rest" /\ q.pc # "read_rest" )
                    => LET b3 == r.payload[4]
                           n == b3 - 2
                       IN  /\ n \in 0..252
                           /\ Len(uart_in) >= n
                           /\ uart_in' = SubSeq(uart_in, n + 1, Len(uart_in))
                           /\ q.payload = r.payload \o SubSeq(uart_in, 1, n)
                           /\ Len(q.payload) = b3 + 4
                           /\ from_bytes(q.payload).exc
                                 \in {"none", "InvalidSync", "ChecksumMismatch"}
              /\ ( r.pc = "done" /\ r.result = "InvalidParameterLength" )
                    => ( Len(r.payload) = 6 /\ q.pc \in {"done", "idle"} )
      ]_vars

\* C15 witness: a reply with length byte 254 has been read whole, 6 bytes
\* and then 252, and has parsed.
C15_Witness ==
    /\ call[1].pc = "done"
    /\ call[1].result = "ok"
    /\ Len(call[1].payload) = 258
    /\ call[1].param_length = 252
    /\ uart_in = <<>>

\* the caller waits in the first, respectively the second, loop of
\* _read_message
WaitsForHeader == call[1].pc = "read_header"
WaitsForRest == call[1].pc = "read_rest"

\* the bytes the transport holds for the caller: arrived, or on their way
Incoming == uart_in \o wire

\* the transport holds 6 bytes and the further bytes those 6 declare
HeaderAndRestIncoming ==
    /\ Len(Incoming) >= 6
    /\ LET n == Incoming[4] - 2
       IN  n < 0 \/ n > 252 \/ Len(Incoming) >= 6 + n

RestIncoming == Len(Incoming) >= call[1].param_length

\* the servo has answered what it will; the bytes the caller waits for are
\* not all among those the transport holds
Starved ==
    /\ unanswered = 0
    /\ \/ WaitsForHeader /\ Len(Incoming) < 6
       \/ WaitsForRest /\ ~RestIncoming

\* C16: a call that has written a request is over only with a reply of at
\* least 6 bytes read; while it waits for the reply, it is over eventually
\* if the transport holds 6 bytes and the further bytes their length byte
\* declares; if the transport holds fewer and no more are to come, the call
\* waits forever and never raises.
C16_BlocksUntilReply ==
    /\ []( ( call[1].pc = "done" /\ call[1].written # <<>> )
             => ( call[1].replies = 1 /\ Len(call[1].payload) >= 6 ) )
    /\ ( ( WaitsForHeader /\ HeaderAndRestIncoming ) ~> call[1].pc = "done" )
    /\ ( ( WaitsForRest /\ RestIncoming ) ~> call[1].pc = "done" )
    /\ []( Starved => []( Starved /\ call[1].result = "none" ) )

\* C16 witness: the caller has read 6 bytes that declare 2 more, 1 of them
\* has arrived, and the line is silent.
C16_Witness ==
    /\ WaitsForRest
    /\ call[1].param_length = 2
    /\ Len(uart_in) = 1
    /\ wire = <<>>
    /\ unanswered = 0

\* the transaction of call r is past its clear of the input buffer
PastClear(r) == r.pc \in {"write", "read_header", "read_rest", "done"}

\* the caller's next step takes bytes from the input buffer
AboutToRead(r) ==
    \/ r.pc = "read_header" /\ Len(uart_in) >= 6
    \/ r.pc = "read_rest" /\ r.param_length >= 1 /\ Len(uart_in) >= r.param_length

\* C17 (as claimed): with one caller, no byte that was in the input buffer
\* when a transaction started is left there once the transaction has
\* cleared the buffer, and the bytes a transaction reads as its reply hold
\* nothing of an earlier reply: a transaction that raised does not corrupt
\* the next.
C17_NoEarlierReplyParsed ==
    \A c \in callers :
        LET r == call[c]
        IN  /\ PastClear(r) => stale.buffered = 0
            /\ AboutToRead(r) => stale.old = 0

\* C17 (amended): with one caller, no byte that was in the input buffer
\* when a transaction started is left there once the transaction has
\* cleared the buffer, so none is part of the frame it parses; bytes of an
\* earlier reply that reach the buffer after the clear are not covered.
C17_StaleBytesDiscarded ==
    \A c \in callers :
        LET r == call[c]
        IN  /\ PastClear(r) => stale.buffered = 0
            /\ AboutToRead(r) => stale.buffered = 0
            /\ r.pc = "reset" => stale.buffered <= Len(uart_in)
            /\ stale.buffered <= stale.old

\* C17 witness: after a call that raised, the next call's transaction has
\* cleared unread bytes from the input buffer and has returned.
C17_Witness ==
    /\ prev.result = "raised"
    /\ call[1].pc = "done"
    /\ call[1].result = "ok"
    /\ call[1].discarded >= 1
    /\ stale.buffered = 0

\* C18: the controller holds no caller back: with two callers, whatever the
\* other caller's call is doing, a caller with no call in progress can enter
\* a public operation, a caller about to clear the input buffer can clear
\* it, and a caller waiting for a reply reads 6 bytes as soon as the buffer
\* holds them, whoever they were meant for.
C18_NoSerialization ==
    \A c \in callers :
        /\ call[c].pc = "idle" => ( ENABLED stop(c, c) /\ ENABLED is_moving(c, c) )
        /\ call[c].pc = "reset" => ENABLED uart_reset_input_buffer(c)
        /\ ( call[c].pc = "read_header" /\ Len(uart_in) >= 6 )
              => ENABLED read_message_header(c)

\* C18 witness: caller 2 wrote its request while caller 1 waited for its
\* reply, caller 2's clear of the input buffer discarded the 6 bytes of the
\* reply to caller 1, caller 1 has parsed the reply of servo 2 as its own,
\* and caller 2 waits for a reply that will not come.
C18_Witness ==
    /\ callers = {1, 2}
    /\ call[1].servo_id = 1
    /\ call[1].pc = "done"
    /\ call[1].result = "ok"
    /\ call[1].reply.id = 2
    /\ call[2].servo_id = 2
    /\ call[2].pc = "read_header"
    /\ Len(call[2].written) = 1
    /\ call[2].discarded = 6
    /\ uart_in = <<>>
    /\ wire = <<>>

\* C19 (as claimed): with one caller, whenever set_motor_speed on a
\* non-broadcast id d has written a frame without writing the angle limits
\* first, the last angle-limit write that reached servo d (sent to d or to
\* the broadcast id) carried [0,0,0,0]: the write is skipped only for a
\* servo that is configured as a motor.
C19_CachedMotorIsMotor ==
    \A c \in callers :
        LET r == call[c]
        IN  ( /\ r.op = "set_motor_speed"
              /\ r.servo_id # 254
              /\ Len(r.written) >= 1
              /\ ~SentLimits(r) )
            => device.limits[r.servo_id] = <<0, 0, 0, 0>>

\* the mode a call's angle-limit write stands for
NewMode(r) == IF r.op = "set_position" THEN 1 ELSE 2

\* cache `after` is cache `before` with the entry of d set to mode
SameButEntry(after, before, d, mode) ==
    /\ DOMAIN after = (DOMAIN before) \cup {d}
    /\ after[d] = mode
    /\ \A k \in (DOMAIN before) \ {d} : after[k] = before[k]

\* C20: _servo_modes holds no value but Servo and Motor.  While a setter's
\* angle-limit write to d is not acknowledged, and when it has raised, the
\* cache is as it was when the call began; the step that reads the
\* acknowledgment of status 0 sets the entry of d to Servo for set_position
\* and to Motor for set_motor_speed, and no other step changes the cache;
\* from then on, also when the goal write raises, the entry keeps that
\* value.
C20_ModeSetOnAcknowledgedLimits ==
    /\ []( \A k \in DOMAIN servo_modes : servo_modes[k] \in {1, 2} )
    /\ []( \A c \in callers :
             LET r == call[c]
             IN  r.op \in {"set_position", "set_motor_speed"}
                 => /\ r.stage \in {"none", "limit"} => servo_modes = r.modes0
                    /\ ( r.stage = "goal" /\ ~SentLimits(r) ) => servo_modes = r.modes0
                    /\ ( r.stage = "goal" /\ SentLimits(r) )
                          => SameButEntry(servo_modes, r.modes0, r.servo_id, NewMode(r)) )
    /\ [][ \A c \in callers :
             LET r == call[c]
                 q == call'[c]
             IN  /\ ( r.stage = "limit" /\ q.stage = "goal" )
                       => /\ r.pc = "read_rest"
                          /\ IsLimitWrite(r.written[1], r.servo_id,
                                 IF r.op = "set_position" THEN <<0, 1, 3, 255>>
                                                          ELSE <<0, 0, 0, 0>>)
                          /\ from_bytes(q.payload) = Parsed(q.reply)
                          /\ q.reply.instruction = 0
                          /\ SameButEntry(servo_modes', servo_modes, r.servo_id, NewMode(r))
                 /\ servo_modes' # servo_modes
                       => ( r.stage = "limit" /\ q.stage = "goal" ) ]_vars

\* C20 witness: set_motor_speed on a servo cached as Servo has raised
\* DeviceError on its goal-time write; the entry is Motor.
C20_Witness ==
    /\ call[1].op = "set_motor_speed"
    /\ call[1].pc = "done"
    /\ call[1].stage = "goal"
    /\ call[1].result = "DeviceError"
    /\ DictGet(call[1].modes0, call[1].servo_id, 0) = 1
    /\ DictGet(servo_modes, call[1].servo_id, 0) = 2

====
